---- MODULE Spec2Model ----
(***************************************************************************)
(* Stock watchlist backend: price store and latest-price cache, price      *)
(* ingestion, alert evaluation and notification dispatch.                  *)
(*                                                                         *)
(* Prices and thresholds are DecimalField(15, 4) values, held here as      *)
(* integers counting 1/10000 of a currency unit.  Instants are integers    *)
(* read from the clock `now`; a nullable instant that is not set is NULL.  *)
(***************************************************************************)
EXTENDS Integers, Sequences, FiniteSets, TLC

\* ---------------------------------------------------------------- bounds
\* Number of clock ticks explored after the initial instant.
MaxTicks == 1
\* The retention period of cleanup_old_prices (365 days) in clock ticks.
RetentionTicks == 1

\* ------------------------------------------------------ program constants
\* null=True instants (triggered_at, last_checked_at, sent_at) when unset.
NULL == -1
\* @shared_task(bind=True, max_retries=3) of send_price_alert_notification.
max_retries == 3

Stocks == {"AAPL", "MSFT"}
AlertIds == {1, 2}
Runs == {"beat", "manual"}
CONDITION_TYPES == {"PRICE_ABOVE", "PRICE_BELOW", "PERCENT_CHANGE"}
\* Errors the email transport can raise (send_mail, fail_silently=False).
MailErrors == {"SMTPConnectError", "SMTPRecipientsRefused"}

StartTime == RetentionTicks
MaxTime == StartTime + MaxTicks

VARIABLES
    now,            \* timezone.now()
    prices,         \* table stock_prices: set of StockPrice rows
    cache,          \* cache key latest_price:<symbol> -> cached row or NoPrice
    alerts,         \* table price_alerts: alert id -> row
    evalRun,        \* evaluate_price_alerts invocations in progress
    tasks,          \* send_price_alert_notification messages and their state
    notifications,  \* table notifications: sequence of rows, id = index
    ingestRun,      \* fetch_stock_prices invocations in progress
    reader,         \* latest_price calls in progress
    saver,          \* price API write requests in progress
    users,          \* table users: user id -> row
    bulkRun,        \* the send_bulk_notifications invocation
    profiles,       \* table profiles: sequence of rows, id = index
    watchlists,     \* table watchlists: set of rows
    api_keys,       \* table api_keys: sequence of rows, id = index
    request         \* account, watchlist and notification API requests

\* The state of the API requests and of the bulk sender, which the scheduled
\* pipelines leave alone.
acctVars == <<profiles, watchlists, api_keys, request>>

restVars == <<reader, saver, users, bulkRun, acctVars>>

vars == <<now, prices, cache, alerts, evalRun, tasks, notifications, ingestRun,
          reader, saver, users, bulkRun, profiles, watchlists, api_keys, request>>

\* The absent value of latest_price (None) and of an empty cache key.
NoPrice == [stock |-> "", timestamp |-> NULL, price |-> 0, volume |-> 0, source |-> ""]

\* ------------------------------------------------------------------ clock
Tick ==
    /\ now < MaxTime
    /\ now' = now + 1
    /\ UNCHANGED <<prices, cache, alerts, evalRun, tasks, notifications, ingestRun, restVars>>

\* ------------------------------------------------- notification dispatcher
\* A dispatcher that writes its row as already sent, before send_mail.
NewNotification_sent(a, t) ==
    [user |-> alerts[a].user, alert |-> a, notification_type |-> "PRICE_ALERT",
     channel |-> "EMAIL", status |-> "SENT", sent_at |-> now, error_message |-> "",
     read_at |-> NULL, task |-> t]

\* Notification.objects.create(..., status='PENDING'): a new row with a fresh
\* id.  The field `task` is not a column: it records which dispatcher message
\* created the row, so that rows can be counted per trigger.
NewNotification(a, t) ==
    [user |-> alerts[a].user, alert |-> a, notification_type |-> "PRICE_ALERT",
     channel |-> "EMAIL", status |-> "PENDING", sent_at |-> NULL, error_message |-> "",
     read_at |-> NULL, task |-> t]

mark_as_sent(n) == [n EXCEPT !.status = "SENT", !.sent_at = now]

mark_as_failed(n, error) == [n EXCEPT !.status = "FAILED", !.error_message = error]

\* A message as put on the queue by send_price_alert_notification.delay().
NewTask(a, p, r) ==
    [alert_id |-> a, current_price |-> p, retries |-> 0, pc |-> "queued",
     nid |-> 0, exc |-> "", by |-> r]

\* self.retry that compares with <=, and so grants one retry more.
retry_once_more(t, exc) ==
    IF t.retries <= max_retries
    THEN [t EXCEPT !.retries = t.retries + 1, !.pc = "queued", !.exc = exc, !.nid = 0]
    ELSE [t EXCEPT !.pc = "failed", !.exc = exc, !.nid = 0]

\* self.retry(exc=exc, countdown=60): the message is sent again with
\* retries + 1 while retries < max_retries; after that exc is raised and the
\* task ends in failure.
retry(t, exc) ==
    IF t.retries < max_retries
    THEN [t EXCEPT !.retries = t.retries + 1, !.pc = "queued", !.exc = exc, !.nid = 0]
    ELSE [t EXCEPT !.pc = "failed", !.exc = exc, !.nid = 0]

\* Lines 84-111: one execution of the task body up to the PENDING row.
NotifyCreate(i) ==
    /\ tasks[i].pc = "queued"
    /\ notifications' = Append(notifications, NewNotification(tasks[i].alert_id, i))
    /\ tasks' = [tasks EXCEPT ![i].pc = "sending", ![i].nid = Len(notifications) + 1]
    /\ UNCHANGED <<now, prices, cache, alerts, evalRun, ingestRun, restVars>>

\* Lines 114-126: send_mail returns; the row of this execution is marked sent.
NotifySendOk(i) ==
    /\ tasks[i].pc = "sending"
    /\ notifications' = [notifications EXCEPT
                            ![tasks[i].nid] = mark_as_sent(notifications[tasks[i].nid])]
    /\ tasks' = [tasks EXCEPT ![i].pc = "succeeded"]
    /\ UNCHANGED <<now, prices, cache, alerts, evalRun, ingestRun, restVars>>

\* Lines 128-135: send_mail raises; the row of this execution is marked
\* failed, the error is raised again and the outer handler asks for a retry.
NotifySendFail(i) ==
    /\ tasks[i].pc = "sending"
    /\ \E e \in MailErrors :
          /\ notifications' = [notifications EXCEPT
                                  ![tasks[i].nid] = mark_as_failed(notifications[tasks[i].nid], e)]
          /\ tasks' = [tasks EXCEPT ![i] = retry(tasks[i], e)]
    /\ UNCHANGED <<now, prices, cache, alerts, evalRun, ingestRun, restVars>>

\* Lines 85, 133-135: the alert lookup (or the row insert) raises before a
\* row exists; the outer handler asks for a retry.
NotifyLookupFail(i) ==
    /\ tasks[i].pc = "queued"
    /\ tasks' = [tasks EXCEPT ![i] = retry(tasks[i], "DatabaseError")]
    /\ UNCHANGED <<now, prices, cache, alerts, evalRun, notifications, ingestRun, restVars>>

\* ------------------------------------------------------------- price store
HasPrice(s) == \E p \in prices : p.stock = s

\* self.filter(stock=stock).latest('timestamp')
Latest(s) ==
    CHOOSE p \in prices :
        /\ p.stock = s
        /\ \A q \in prices : q.stock = s => q.timestamp <= p.timestamp

\* latest_price with the stock filter left out of the query: the newest row of
\* any stock answers a miss.
latest_price_any_stock(s) ==
    IF cache[s] # NoPrice THEN cache[s]
    ELSE IF prices # {}
         THEN CHOOSE p \in prices : \A q \in prices : q.timestamp <= p.timestamp
    ELSE NoPrice

\* StockPriceManager.latest_price: the cached row when the key is set,
\* otherwise the newest stored row (None when the stock has no row).
latest_price(s) ==
    IF cache[s] # NoPrice THEN cache[s]
    ELSE IF HasPrice(s) THEN Latest(s)
    ELSE NoPrice

\* The cache after latest_price(s): cache.set on a miss that found a row.
CacheAfterLatestPrice(s) ==
    IF cache[s] = NoPrice /\ HasPrice(s)
    THEN [cache EXCEPT ![s] = Latest(s)]
    ELSE cache

\* The 300 second timeout of cache.set runs out.
CacheExpire(s) ==
    /\ cache[s] # NoPrice
    /\ cache' = [cache EXCEPT ![s] = NoPrice]
    /\ UNCHANGED <<now, prices, alerts, evalRun, tasks, notifications, ingestRun, restVars>>

\* cleanup_old_prices: a queryset delete of the rows older than the cutoff.
\* It does not go through StockPrice.save, so no cache key is deleted.
cleanup_old_prices ==
    /\ \E p \in prices : p.timestamp < now - RetentionTicks
    /\ prices' = {p \in prices : ~(p.timestamp < now - RetentionTicks)}
    /\ UNCHANGED <<now, cache, alerts, evalRun, tasks, notifications, ingestRun, restVars>>

\* --------------------------------------------------------- alert evaluator
\* A selection that looks at is_active only.
active_alerts_ignoring_triggered == {a \in AlertIds : alerts[a].is_active}

\* PriceAlertManager.active_alerts
active_alerts == {a \in AlertIds : alerts[a].is_active /\ alerts[a].triggered_at = NULL}

\* Meta.ordering = ['-created_at']; ids are handed out in creation order.
RECURSIVE NewestFirst(_)
NewestFirst(S) ==
    IF S = {} THEN <<>>
    ELSE LET m == CHOOSE x \in S : \A y \in S : y <= x
         IN  <<m>> \o NewestFirst(S \ {m})

\* check_condition with inclusive comparisons.
check_condition_inclusive(alert, current_price) ==
    IF current_price = NoPrice THEN FALSE
    ELSE IF alert.condition_type = "PRICE_ABOVE"
         THEN current_price.price >= alert.threshold_value
    ELSE IF alert.condition_type = "PRICE_BELOW"
         THEN current_price.price <= alert.threshold_value
    ELSE FALSE

check_condition(alert, current_price) ==
    IF current_price = NoPrice THEN FALSE
    ELSE IF alert.condition_type = "PRICE_ABOVE"
         THEN current_price.price > alert.threshold_value
    ELSE IF alert.condition_type = "PRICE_BELOW"
         THEN current_price.price < alert.threshold_value
    ELSE FALSE

\* trigger() that deactivates whether or not the alert is one_time.
trigger_always_deactivates(alert) ==
    [alert EXCEPT !.triggered_at = now, !.is_active = FALSE]

\* PriceAlert.trigger on the in-memory instance.
trigger(alert) ==
    [alert EXCEPT !.triggered_at = now,
                  !.is_active = IF alert.one_time THEN FALSE ELSE alert.is_active]

IdleRun == [pc |-> "idle", sel |-> <<>>, mem |-> <<>>, i |-> 0, latest_price |-> NoPrice]

Cur(r) == evalRun[r].sel[evalRun[r].i]

\* `continue` or the end of the loop body: on to the next alert, or return.
Advance(run) ==
    IF run.i < Len(run.sel)
    THEN [run EXCEPT !.i = run.i + 1, !.pc = "lookup", !.latest_price = NoPrice]
    ELSE [run EXCEPT !.pc = "done", !.latest_price = NoPrice, !.mem = <<>>]

\* Lines 37-43: the queryset is evaluated once, when the loop starts; the
\* loop then works on the instances loaded at that moment.
EvalStart(r) ==
    /\ evalRun[r].pc = "idle"
    /\ LET sel == NewestFirst(active_alerts)
       IN  evalRun' = [evalRun EXCEPT ![r] =
               [pc |-> IF sel = <<>> THEN "done" ELSE "lookup",
                sel |-> sel, mem |-> [a \in active_alerts |-> alerts[a]],
                i |-> IF sel = <<>> THEN 0 ELSE 1, latest_price |-> NoPrice]]
    /\ UNCHANGED <<now, prices, cache, alerts, tasks, notifications, ingestRun, restVars>>

\* Lines 45-48.
EvalLookup(r) ==
    /\ evalRun[r].pc = "lookup"
    /\ LET a  == Cur(r)
           lp == latest_price(evalRun[r].mem[a].stock)
           v  == evalRun[r]
       IN  /\ cache' = CacheAfterLatestPrice(evalRun[r].mem[a].stock)
           /\ evalRun' = [evalRun EXCEPT ![r] =
                  IF lp = NoPrice THEN Advance(v)
                  ELSE [v EXCEPT !.pc = "check", !.latest_price = lp]]
    /\ UNCHANGED <<now, prices, alerts, tasks, notifications, ingestRun, restVars>>

\* Line 51.
EvalCheck(r) ==
    /\ evalRun[r].pc = "check"
    /\ evalRun' = [evalRun EXCEPT ![r].pc =
           IF check_condition(evalRun[r].mem[Cur(r)], evalRun[r].latest_price)
           THEN "trigger" ELSE "save"]
    /\ UNCHANGED <<now, prices, cache, alerts, tasks, notifications, ingestRun, restVars>>

\* Line 53: trigger() and its save(update_fields=['triggered_at', 'is_active']),
\* which writes those two columns from the instance in memory.
EvalTrigger(r) ==
    /\ evalRun[r].pc = "trigger"
    /\ LET a == Cur(r)
           m == trigger(evalRun[r].mem[a])
       IN  /\ alerts' = [alerts EXCEPT ![a].triggered_at = m.triggered_at,
                                       ![a].is_active = m.is_active]
           /\ evalRun' = [evalRun EXCEPT ![r].mem[a] = m, ![r].pc = "enqueue"]
    /\ UNCHANGED <<now, prices, cache, tasks, notifications, ingestRun, restVars>>

\* Line 56.
EvalEnqueue(r) ==
    /\ evalRun[r].pc = "enqueue"
    /\ tasks' = Append(tasks, NewTask(Cur(r), evalRun[r].latest_price.price, r))
    /\ evalRun' = [evalRun EXCEPT ![r].pc = "save"]
    /\ UNCHANGED <<now, prices, cache, alerts, notifications, ingestRun, restVars>>

\* Lines 62-63.
EvalSave(r) ==
    /\ evalRun[r].pc = "save"
    /\ LET a == Cur(r)
       IN  /\ alerts' = [alerts EXCEPT ![a].last_checked_at = now]
           /\ evalRun' = [evalRun EXCEPT ![r] =
                  Advance([evalRun[r] EXCEPT !.mem[a].last_checked_at = now])]
    /\ UNCHANGED <<now, prices, cache, tasks, notifications, ingestRun, restVars>>

\* Lines 67-69: an exception raised by the lookup, the trigger() save, the
\* enqueue or the last_checked_at save leaves the loop; the only handler is
\* the one around the whole body, which logs and raises again.
EvalRaise(r) ==
    /\ evalRun[r].pc \in {"lookup", "trigger", "enqueue", "save"}
    /\ evalRun' = [evalRun EXCEPT ![r].pc = "failed", ![r].mem = <<>>,
                                   ![r].latest_price = NoPrice]
    /\ UNCHANGED <<now, prices, cache, alerts, tasks, notifications, ingestRun, restVars>>

\* ------------------------------------------------------------ initial state
\* No account, no watchlist and no API key exists.
InitAcct ==
    /\ profiles = <<>>
    /\ watchlists = <<>>
    /\ api_keys = <<>>
    /\ request = <<>>

\* No API request and no bulk send is in progress.
InitRest ==
    /\ reader = <<>>
    /\ saver = <<>>
    /\ users = <<>>
    /\ bulkRun = <<>>
    /\ InitAcct

ThresholdValues == {2}
PriceValues == {1, 2, 3}

NewAlert(s, c, th, ot) ==
    [user |-> 1, stock |-> s, condition_type |-> c, threshold_value |-> th, one_time |-> ot,
     is_active |-> TRUE, triggered_at |-> NULL, last_checked_at |-> NULL]

NewPrice(s, ts, p, v, src) ==
    [stock |-> s, timestamp |-> ts, price |-> p, volume |-> v, source |-> src]

\* Alert 1 watches AAPL, which has a current price; alert 2 watches MSFT,
\* which has no price row or a single row about to pass the retention age.
InitEval ==
    /\ now = StartTime
    /\ \E p \in PriceValues, old \in SUBSET {NewPrice("MSFT", 0, 3, 0, "MANUAL")} :
          prices = {NewPrice("AAPL", StartTime, p, 0, "ALPHA_VANTAGE")} \cup old
    /\ cache = [s \in Stocks |-> NoPrice]
    /\ \E c \in CONDITION_TYPES, th \in ThresholdValues, ot \in BOOLEAN :
          alerts = [a \in AlertIds |->
                       IF a = 1 THEN NewAlert("AAPL", c, th, ot)
                       ELSE NewAlert("MSFT", "PRICE_ABOVE", th, FALSE)]
    /\ evalRun = [r \in Runs |-> IdleRun]
    /\ tasks = <<>>
    /\ notifications = <<>>
    /\ ingestRun = <<>>
    /\ InitRest

NextEval ==
    \/ Tick
    \/ \E s \in Stocks : CacheExpire(s)
    \/ cleanup_old_prices
    \/ \E r \in Runs : EvalStart(r)
    \/ \E r \in Runs : EvalLookup(r)
    \/ \E r \in Runs : EvalCheck(r)
    \/ \E r \in Runs : EvalTrigger(r)
    \/ \E r \in Runs : EvalEnqueue(r)
    \/ \E r \in Runs : EvalSave(r)
    \/ \E r \in Runs : EvalRaise(r)

SpecEval == InitEval /\ [][NextEval]_vars

\* ------------------------------------------------- dispatcher specification
\* The state an evaluator run leaves behind: the alerts it triggered and one
\* queued dispatch for each of them.  The dispatch for alert 2 is new; the one
\* for alert 1, when present, has already been retried twice after its alert
\* lookup raised, so it has created no row yet.
TriggeredAlert(s, c, ot) ==
    [NewAlert(s, c, 2, ot) EXCEPT !.triggered_at = StartTime,
                                  !.is_active = ~ot,
                                  !.last_checked_at = StartTime]

InitDispatch ==
    /\ now = StartTime
    /\ prices = {NewPrice("AAPL", StartTime, 1, 0, "ALPHA_VANTAGE"),
                 NewPrice("MSFT", StartTime, 3, 0, "ALPHA_VANTAGE")}
    /\ cache = [s \in Stocks |-> NoPrice]
    /\ alerts = [a \in AlertIds |->
                    IF a = 1 THEN TriggeredAlert("AAPL", "PRICE_BELOW", TRUE)
                    ELSE TriggeredAlert("MSFT", "PRICE_ABOVE", FALSE)]
    /\ evalRun = [r \in Runs |-> IdleRun]
    /\ tasks \in {<<NewTask(2, 3, "beat")>>,
                  <<NewTask(2, 3, "beat"),
                    retry(retry(NewTask(1, 1, "beat"), "DatabaseError"), "DatabaseError")>>}
    /\ notifications = <<>>
    /\ ingestRun = <<>>
    /\ InitRest

NextDispatch ==
    \/ Tick
    \/ \E i \in DOMAIN tasks : NotifyCreate(i)
    \/ \E i \in DOMAIN tasks : NotifySendOk(i)
    \/ \E i \in DOMAIN tasks : NotifySendFail(i)
    \/ \E i \in DOMAIN tasks : NotifyLookupFail(i)

SpecDispatch == InitDispatch /\ [][NextDispatch]_vars

\* ------------------------------------------------------- bulk notifications
UserIds == {1, 2, 3}
\* An id in a recipient list that names no user.
NoSuchUser == 4

\* The users a bulk send goes to when the is_active filter is left out.
BulkRecipients_all(user_ids) == {u \in UserIds : u \in user_ids}

\* User.objects.filter(id__in=user_ids, is_active=True)
BulkRecipients(user_ids) == {u \in UserIds : u \in user_ids /\ users[u].is_active}

\* Notification.objects.create(user=user, notification_type='SYSTEM', ...,
\* status='PENDING'); the row belongs to no alert and to no dispatch.
NewBulkNotification(u) ==
    [user |-> u, alert |-> NULL, notification_type |-> "SYSTEM", channel |-> "EMAIL",
     status |-> "PENDING", sent_at |-> NULL, error_message |-> "",
     read_at |-> NULL, task |-> 0]

\* The user_ids a bulk send is called with.
RecipientLists == {UserIds, {1, 3, NoSuchUser}, {2}, {}}

NoResult == [sent |-> NULL, total |-> NULL]

\* `todo` are the selected users the loop has not reached (the queryset has
\* no ordering), `total` is users.count(), `result` the returned dict.
IdleBulk(user_ids) ==
    [pc |-> "idle", user_ids |-> user_ids, todo |-> {}, total |-> 0, nid |-> 0,
     sent_count |-> 0, result |-> NoResult]

\* The end of the loop body: on to the next user, or lines 179-180.
BulkAdvance(run) ==
    IF run.todo # {}
    THEN [run EXCEPT !.pc = "create", !.nid = 0]
    ELSE [run EXCEPT !.pc = "done", !.nid = 0,
                     !.result = [sent |-> run.sent_count, total |-> run.total]]

\* Lines 150-154: the queryset is evaluated when the loop starts.
BulkStart ==
    /\ bulkRun.pc = "idle"
    /\ LET sel == BulkRecipients(bulkRun.user_ids)
       IN  bulkRun' = BulkAdvance([bulkRun EXCEPT !.todo = sel,
                                                  !.total = Cardinality(sel)])
    /\ UNCHANGED <<now, prices, cache, alerts, evalRun, tasks, notifications,
                   ingestRun, reader, saver, users, acctVars>>

\* Lines 154-162: the PENDING row of the next user.
BulkCreate(u) ==
    /\ bulkRun.pc = "create"
    /\ u \in bulkRun.todo
    /\ notifications' = Append(notifications, NewBulkNotification(u))
    /\ bulkRun' = [bulkRun EXCEPT !.pc = "send", !.todo = bulkRun.todo \ {u},
                                  !.nid = Len(notifications) + 1]
    /\ UNCHANGED <<now, prices, cache, alerts, evalRun, tasks, ingestRun,
                   reader, saver, users, acctVars>>

\* Lines 164-174: send_mail returns; the row is marked sent and counted.
BulkSendOk ==
    /\ bulkRun.pc = "send"
    /\ notifications' = [notifications EXCEPT
                            ![bulkRun.nid] = mark_as_sent(notifications[bulkRun.nid])]
    /\ bulkRun' = BulkAdvance([bulkRun EXCEPT !.sent_count = bulkRun.sent_count + 1])
    /\ UNCHANGED <<now, prices, cache, alerts, evalRun, tasks, ingestRun,
                   reader, saver, users, acctVars>>

\* Lines 176-178: send_mail raises; the row is marked failed and the loop
\* goes on.
BulkSendFail ==
    /\ bulkRun.pc = "send"
    /\ \E e \in MailErrors :
          notifications' = [notifications EXCEPT
                               ![bulkRun.nid] = mark_as_failed(notifications[bulkRun.nid], e)]
    /\ bulkRun' = BulkAdvance(bulkRun)
    /\ UNCHANGED <<now, prices, cache, alerts, evalRun, tasks, ingestRun,
                   reader, saver, users, acctVars>>

\* Lines 182-184: the row insert raises; the handler around the whole body
\* logs and raises again, and the task fails.
BulkRaise ==
    /\ bulkRun.pc = "create"
    /\ bulkRun' = [bulkRun EXCEPT !.pc = "failed"]
    /\ UNCHANGED <<now, prices, cache, alerts, evalRun, tasks, notifications,
                   ingestRun, reader, saver, users, acctVars>>

\* A bulk send to some recipient list, next to one dispatch that has one
\* retry left.
InitBulk ==
    /\ now = StartTime
    /\ prices = {NewPrice("AAPL", StartTime, 1, 0, "ALPHA_VANTAGE"),
                 NewPrice("MSFT", StartTime, 3, 0, "ALPHA_VANTAGE")}
    /\ cache = [s \in Stocks |-> NoPrice]
    /\ alerts = [a \in AlertIds |->
                    IF a = 1 THEN TriggeredAlert("AAPL", "PRICE_BELOW", TRUE)
                    ELSE TriggeredAlert("MSFT", "PRICE_ABOVE", FALSE)]
    /\ evalRun = [r \in Runs |-> IdleRun]
    /\ tasks = <<retry(retry(NewTask(2, 3, "beat"), "DatabaseError"), "DatabaseError")>>
    /\ notifications = <<>>
    /\ ingestRun = <<>>
    /\ reader = <<>>
    /\ saver = <<>>
    /\ users \in [UserIds -> [is_active : BOOLEAN]]
    /\ \E ids \in RecipientLists : bulkRun = IdleBulk(ids)
    /\ InitAcct

NextBulk ==
    \/ Tick
    \/ \E i \in DOMAIN tasks : NotifyCreate(i)
    \/ \E i \in DOMAIN tasks : NotifySendOk(i)
    \/ \E i \in DOMAIN tasks : NotifySendFail(i)
    \/ \E i \in DOMAIN tasks : NotifyLookupFail(i)
    \/ BulkStart
    \/ \E u \in UserIds : BulkCreate(u)
    \/ BulkSendOk
    \/ BulkSendFail
    \/ BulkRaise

SpecBulk == InitBulk /\ [][NextBulk]_vars

\* ----------------------------------------------------- dispatcher properties
\* The rows created by the executions of dispatch i (one trigger).
Rows(i) == {n \in DOMAIN notifications : notifications[n].task = i}

\* C1: one trigger (a dispatch with all of its retries) creates at most one
\* notification row.
C1_OneRecordPerTrigger ==
    \A i \in DOMAIN tasks : Cardinality(Rows(i)) <= 1

\* C2: when delivery succeeds on the first, second or third attempt, the
\* notification rows of that trigger are SENT with sent_at set once the task
\* has finished.
C2_SuccessLeavesRecordSent ==
    \A i \in DOMAIN tasks :
        (tasks[i].pc = "succeeded" /\ tasks[i].retries <= 2) =>
            \A n \in Rows(i) :
                notifications[n].status = "SENT" /\ notifications[n].sent_at # NULL

\* C3: while every delivery attempt of a trigger has failed, its notification
\* rows stay PENDING as long as retries remain, and are FAILED with the last
\* error as error_message once the retries are exhausted.
C3_PendingUntilRetriesExhausted ==
    \A i \in DOMAIN tasks :
        tasks[i].pc # "succeeded" =>
            \A n \in Rows(i) :
                IF tasks[i].pc = "failed"
                THEN /\ notifications[n].status = "FAILED"
                     /\ notifications[n].error_message = tasks[i].exc
                ELSE notifications[n].status = "PENDING"

\* C18: the status of a notification row changes only from PENDING to SENT or
\* from PENDING to FAILED, and a row is PENDING when it is created, in every
\* step of a dispatch, of its retries and of a bulk send.
C18_StatusTransitions ==
    [][/\ \A n \in DOMAIN notifications :
            notifications'[n].status # notifications[n].status =>
                /\ notifications[n].status = "PENDING"
                /\ notifications'[n].status \in {"SENT", "FAILED"}
       /\ \A n \in DOMAIN notifications' \ DOMAIN notifications :
            notifications'[n].status = "PENDING"]_vars

\* C18 witness: the dispatch left a FAILED row and, after its retry, a SENT
\* row, and the bulk send left a FAILED and a SENT row.
C18_Witness ==
    \E m, n, k, l \in DOMAIN notifications :
        /\ notifications[m].notification_type = "PRICE_ALERT"
        /\ notifications[m].status = "FAILED"
        /\ notifications[n].notification_type = "PRICE_ALERT"
        /\ notifications[n].status = "SENT"
        /\ notifications[k].notification_type = "SYSTEM"
        /\ notifications[k].status = "FAILED"
        /\ notifications[l].notification_type = "SYSTEM"
        /\ notifications[l].status = "SENT"

\* What is left of a dispatch: 0 once it has ended, otherwise two for each
\* retry it may still ask for, plus one or two for the execution in hand.
Remaining(t) ==
    IF t.pc \in {"succeeded", "failed"} THEN 0
    ELSE 2 * (max_retries - t.retries) + (IF t.pc = "queued" THEN 2 ELSE 1)

\* C19: a dispatch is executed again at most max_retries = 3 times after its
\* first execution, so it makes at most four delivery attempts; and it
\* terminates: every step of a dispatch brings it strictly closer to its
\* end, and a dispatch whose deliveries all failed ends as failed.
C19_BoundedRetries ==
    /\ [](\A i \in DOMAIN tasks :
             /\ tasks[i].retries <= max_retries
             /\ Cardinality(Rows(i)) <= max_retries + 1
             /\ Remaining(tasks[i]) >= 0
             /\ tasks[i].pc = "failed" => tasks[i].retries = max_retries)
    /\ [][\A i \in DOMAIN tasks :
             tasks'[i] # tasks[i] => Remaining(tasks'[i]) < Remaining(tasks[i])]_vars

\* C19 witness: every delivery of a dispatch failed; it made four attempts
\* (the first and three retries) and has ended as failed.
C19_Witness ==
    \E i \in DOMAIN tasks :
        /\ tasks[i].pc = "failed"
        /\ tasks[i].retries = max_retries
        /\ Cardinality(Rows(i)) = max_retries + 1
        /\ \A n \in Rows(i) : notifications[n].status = "FAILED"

\* The rows of the bulk send, and those of one user.
BulkRows == {n \in DOMAIN notifications : notifications[n].notification_type = "SYSTEM"}

BulkRowsOf(u) == {n \in BulkRows : notifications[n].user = u}

\* C20: when send_bulk_notifications returns, every active user of the
\* recipient list has exactly one row and nobody else has one, every row is
\* SENT or FAILED (its delivery was attempted), and the returned sent count
\* is the number of SENT rows; a failed delivery changes no row but that
\* recipient's, and the loop goes on to the remaining recipients.
C20_BulkOnePerActiveUser ==
    /\ [](bulkRun.pc = "done" =>
             /\ \A u \in UserIds :
                    Cardinality(BulkRowsOf(u)) =
                        IF u \in bulkRun.user_ids /\ users[u].is_active THEN 1 ELSE 0
             /\ \A n \in BulkRows : notifications[n].status \in {"SENT", "FAILED"}
             /\ bulkRun.result.sent =
                    Cardinality({n \in BulkRows : notifications[n].status = "SENT"})
             /\ bulkRun.result.total = Cardinality(BulkRows))
    /\ [][(/\ bulkRun.pc = "send"
            /\ bulkRun' # bulkRun
            /\ notifications'[bulkRun.nid].status = "FAILED") =>
               /\ \A n \in BulkRows \ {bulkRun.nid} :
                      notifications'[n] = notifications[n]
               /\ bulkRun'.sent_count = bulkRun.sent_count
               /\ IF bulkRun.todo # {} THEN bulkRun'.pc = "create"
                  ELSE bulkRun'.pc = "done"]_vars

\* C20 witness: a bulk send to three users of whom one is inactive has
\* returned; the first delivery failed and the second succeeded.
C20_Witness ==
    /\ bulkRun.pc = "done"
    /\ bulkRun.user_ids = UserIds
    /\ \E u \in UserIds : ~users[u].is_active /\ BulkRowsOf(u) = {}
    /\ bulkRun.result = [sent |-> 1, total |-> 2]
    /\ \E m, n \in BulkRows :
          /\ m < n
          /\ notifications[m].status = "FAILED"
          /\ notifications[n].status = "SENT"

\* --------------------------------------------------------- price ingestion
IngestRuns == {"beat", "overlap"}

\* A field of the "Global Quote" object: absent, present but not a number,
\* or a numeric text.  A price text counts 1/100000 of a currency unit.
Missing == [present |-> FALSE, numeric |-> FALSE, value |-> 0]
Garbage == [present |-> TRUE, numeric |-> FALSE, value |-> 0]
Num(v) == [present |-> TRUE, numeric |-> TRUE, value |-> v]

\* What requests.get can come back with.
Responses ==
    {[kind |-> k, price |-> Missing, volume |-> Missing] :
        k \in {"RequestException", "Error Message", "Note", "NoQuote"}}
    \cup {[kind |-> "Global Quote", price |-> p, volume |-> v] :
            p \in {Missing, Garbage, Num(14), Num(26)}, v \in {Garbage, Num(7)}}

\* float(x) / int(x) raise ValueError on a text that is not a number.
Parses(f) == ~f.present \/ f.numeric

\* global_quote.get(key, 0) followed by the conversion.
Parsed(f) == IF f.present THEN f.value ELSE 0

\* A float price stored in DecimalField(max_digits=15, decimal_places=4):
\* rounded to four places (no value of the model lies on a tie).
ToDecimal4(v) == (v + 5) \div 10

NoData == [price |-> 0, volume |-> 0, timestamp |-> NULL]

\* fetch_stock_price_from_api: the parsed quote, or None (NoData).
fetch_stock_price_from_api(resp) ==
    IF resp.kind # "Global Quote" THEN NoData
    ELSE IF ~Parses(resp.price) \/ ~Parses(resp.volume) THEN NoData
    ELSE [price |-> Parsed(resp.price), volume |-> Parsed(resp.volume), timestamp |-> now]

RowsAt(P, s, ts) == {p \in P : p.stock = s /\ p.timestamp = ts}

StockRows(P, s) == {p \in P : p.stock = s}

\* get_or_create answered by an upsert: an existing row takes the new values.
update_or_create(s, ts, price, volume) ==
    (prices \ RowsAt(prices, s, ts))
        \cup {NewPrice(s, ts, ToDecimal4(price), volume, "ALPHA_VANTAGE")}

\* StockPrice.objects.get_or_create(stock, timestamp, defaults): the table
\* afterwards.  The defaults are used only when no row has the key.
get_or_create(s, ts, price, volume) ==
    IF RowsAt(prices, s, ts) # {} THEN prices
    ELSE prices \cup {NewPrice(s, ts, ToDecimal4(price), volume, "ALPHA_VANTAGE")}

\* Stock.objects.active(), Meta.ordering = ['symbol'].
ActiveStocks == <<"AAPL", "MSFT">>

\* No response: the run is not between a fetch and its store.
NoResponse == [kind |-> "", price |-> Missing, volume |-> Missing]

\* `response` is what requests.get returned for the stock being processed;
\* `created` tells how the previous stock ended; `retries` is
\* self.request.retries.
IdleIngest ==
    [pc |-> "idle", i |-> 0, price_data |-> NoData, created |-> "none",
     response |-> NoResponse, retries |-> 0]

NextStock(run) ==
    IF run.i < Len(ActiveStocks)
    THEN [run EXCEPT !.i = run.i + 1, !.pc = "fetch", !.response = NoResponse]
    ELSE [run EXCEPT !.pc = "done", !.response = NoResponse]

\* Lines 72-75: self.retry(exc=exc, countdown=60) runs the whole job again
\* while retries < max_retries, and fails the job after that.
retry_job(run) ==
    IF run.retries < max_retries
    THEN [IdleIngest EXCEPT !.retries = run.retries + 1]
    ELSE [run EXCEPT !.pc = "failed", !.response = NoResponse]

\* A per-stock handler that lets the error reach the handler of the job.
OnStockError_reraise(run) == retry_job(run)

\* Lines 65-68: the handler inside the loop logs and continues.
OnStockError(run) == NextStock([run EXCEPT !.created = "error"])

\* Lines 43-47.
IngestStart(r) ==
    /\ ingestRun[r].pc = "idle"
    /\ ingestRun' = [ingestRun EXCEPT ![r] = NextStock(ingestRun[r])]
    /\ UNCHANGED <<now, prices, cache, alerts, evalRun, tasks, notifications, restVars>>

\* Lines 50-52: the quote is fetched and stamped with the current time; no
\* data means the stock is passed over.
IngestFetch(r) ==
    /\ ingestRun[r].pc = "fetch"
    /\ \E resp \in Responses :
          LET pd == fetch_stock_price_from_api(resp)
          IN  ingestRun' = [ingestRun EXCEPT ![r] =
                  IF pd = NoData
                  THEN NextStock([ingestRun[r] EXCEPT !.price_data = NoData,
                                                      !.created = "none"])
                  ELSE [ingestRun[r] EXCEPT !.pc = "store", !.price_data = pd,
                                            !.created = "none", !.response = resp]]
    /\ UNCHANGED <<now, prices, cache, alerts, evalRun, tasks, notifications, restVars>>

\* Lines 54-62: get_or_create; a created row goes through StockPrice.save,
\* which deletes the stock's latest_price cache key.
IngestStore(r) ==
    /\ ingestRun[r].pc = "store"
    /\ LET s  == ActiveStocks[ingestRun[r].i]
           pd == ingestRun[r].price_data
           isNew == RowsAt(prices, s, pd.timestamp) = {}
       IN  /\ prices' = get_or_create(s, pd.timestamp, pd.price, pd.volume)
           /\ cache' = IF isNew THEN [cache EXCEPT ![s] = NoPrice] ELSE cache
           /\ ingestRun' = [ingestRun EXCEPT ![r] =
                  NextStock([ingestRun[r] EXCEPT
                      !.created = IF isNew THEN "yes" ELSE "no"])]
    /\ UNCHANGED <<now, alerts, evalRun, tasks, notifications, restVars>>

\* Lines 48-68: the fetch raises something fetch_stock_price_from_api does
\* not catch, or get_or_create raises (the database is unreachable); the
\* handler inside the loop takes it.
IngestStockError(r) ==
    /\ ingestRun[r].pc \in {"fetch", "store"}
    /\ ingestRun' = [ingestRun EXCEPT ![r] = OnStockError(ingestRun[r])]
    /\ UNCHANGED <<now, prices, cache, alerts, evalRun, tasks, notifications, restVars>>

\* Lines 43-45, 72-75: the query for the active stocks raises; the handler of
\* the job asks for a retry.
IngestJobError(r) ==
    /\ ingestRun[r].pc = "idle"
    /\ ingestRun' = [ingestRun EXCEPT ![r] = retry_job(ingestRun[r])]
    /\ UNCHANGED <<now, prices, cache, alerts, evalRun, tasks, notifications, restVars>>

\* Both jobs have been sent again twice after their stock query raised, so
\* each has one retry left.
InitIngest ==
    /\ now = StartTime
    /\ prices \in {{}, {NewPrice("AAPL", 0, 3, 7, "MANUAL")}}
    /\ cache = [s \in Stocks |-> NoPrice]
    /\ alerts = [a \in AlertIds |->
                    IF a = 1 THEN NewAlert("AAPL", "PRICE_BELOW", 2, TRUE)
                    ELSE NewAlert("MSFT", "PRICE_ABOVE", 2, FALSE)]
    /\ evalRun = [r \in Runs |-> IdleRun]
    /\ tasks = <<>>
    /\ notifications = <<>>
    /\ ingestRun = [r \in IngestRuns |->
                       [IdleIngest EXCEPT !.retries = max_retries - 1]]
    /\ InitRest

NextIngest ==
    \/ Tick
    \/ \E r \in IngestRuns : IngestStart(r)
    \/ \E r \in IngestRuns : IngestFetch(r)
    \/ \E r \in IngestRuns : IngestStore(r)
    \/ \E r \in IngestRuns : IngestStockError(r)
    \/ \E r \in IngestRuns : IngestJobError(r)

SpecIngest == InitIngest /\ [][NextIngest]_vars

\* ------------------------------------------------- price API and backfill
Savers == {"admin"}
Readers == {"api", "evaluator"}

\* The stock the administrator's requests and the backfill are about, and
\* the prices an administrator enters or corrects by hand.
ManualStocks == {"AAPL"}
ManualPrices == {5}
\* The timestamps of the rows an administrator writes in the store scenario:
\* the current instant and the one before.
ManualTimes == {StartTime - 1, StartTime}
PatchedPrices == {6}

\* The table without its uniqueness constraint: every INSERT is accepted.
unique_stock_price_timestamp_off(P, row) == TRUE

\* UniqueConstraint(fields=['stock', 'timestamp']): an INSERT or UPDATE that
\* would give the table P a second row with the key of `row` is refused with
\* IntegrityError.
unique_stock_price_timestamp(P, row) == RowsAt(P, row.stock, row.timestamp) = {}

\* StockPrice.save that leaves the latest_price key in the cache.
CacheAfterSave_kept(s) == cache

\* StockPrice.save, after super().save(): cache.delete of the stock's key.
CacheAfterSave(s) == [cache EXCEPT ![s] = NoPrice]

\* A write request of the price API: `row` is the validated instance (kept
\* after a refused INSERT), `outcome` how the request ends.
IdleSaver == [pc |-> "idle", row |-> NoPrice, outcome |-> ""]

\* POST /prices/ by an administrator: StockPriceSerializer.validate_timestamp
\* (not in the future) and validate (no row with the key yet) accept the data.
ApiCreateValidate(w, s, ts, p) ==
    /\ saver[w].pc = "idle"
    /\ ts <= now
    /\ RowsAt(prices, s, ts) = {}
    /\ saver' = [saver EXCEPT ![w] =
           [pc |-> "insert", row |-> NewPrice(s, ts, p, 0, "MANUAL"),
            outcome |-> ""]]
    /\ UNCHANGED <<now, prices, cache, alerts, evalRun, tasks, notifications,
                   ingestRun, reader, users, bulkRun, acctVars>>

\* serializer.save() -> StockPrice.save -> super().save(): the INSERT, which
\* the uniqueness constraint can refuse.
ApiCreateInsert(w) ==
    /\ saver[w].pc = "insert"
    /\ IF unique_stock_price_timestamp(prices, saver[w].row)
       THEN /\ prices' = prices \cup {saver[w].row}
            /\ saver' = [saver EXCEPT ![w].pc = "invalidate",
                                      ![w].outcome = "created"]
       ELSE /\ prices' = prices
            /\ saver' = [saver EXCEPT ![w].pc = "idle",
                                      ![w].outcome = "IntegrityError"]
    /\ UNCHANGED <<now, cache, alerts, evalRun, tasks, notifications,
                   ingestRun, reader, users, bulkRun, acctVars>>

\* StockPrice.save, second half: cache.delete of the stock's key.
ApiInvalidate(w) ==
    /\ saver[w].pc = "invalidate"
    /\ cache' = CacheAfterSave(saver[w].row.stock)
    /\ saver' = [saver EXCEPT ![w].pc = "idle", ![w].row = NoPrice]
    /\ UNCHANGED <<now, prices, alerts, evalRun, tasks, notifications,
                   ingestRun, reader, users, bulkRun, acctVars>>

\* PATCH /prices/<id>/ {"price": p} by an administrator.  ModelViewSet has
\* partial_update, IsAdminOrReadOnly lets staff write, and price is not a
\* read-only field; validate() sees neither stock nor timestamp and accepts.
\* The UPDATE goes through StockPrice.save.
ApiPatchPrice(w, old, p) ==
    /\ saver[w].pc = "idle"
    /\ old \in prices
    /\ old.price # p
    /\ prices' = (prices \ {old}) \cup {[old EXCEPT !.price = p]}
    /\ saver' = [saver EXCEPT ![w] =
           [pc |-> "invalidate", row |-> [old EXCEPT !.price = p],
            outcome |-> "updated"]]
    /\ UNCHANGED <<now, cache, alerts, evalRun, tasks, notifications,
                   ingestRun, reader, users, bulkRun, acctVars>>

\* PUT /prices/<id>/ by an administrator with another timestamp: the
\* validation is that of a create (validate() does not set the instance
\* aside, so a PUT that keeps the key is refused), and the UPDATE is under
\* the uniqueness constraint.
ApiPutTimestamp(w, old, ts) ==
    /\ saver[w].pc = "idle"
    /\ old \in prices
    /\ ts <= now
    /\ RowsAt(prices, old.stock, ts) = {}
    /\ unique_stock_price_timestamp(prices \ {old}, [old EXCEPT !.timestamp = ts])
    /\ prices' = (prices \ {old}) \cup {[old EXCEPT !.timestamp = ts]}
    /\ saver' = [saver EXCEPT ![w] =
           [pc |-> "invalidate", row |-> [old EXCEPT !.timestamp = ts],
            outcome |-> "updated"]]
    /\ UNCHANGED <<now, cache, alerts, evalRun, tasks, notifications,
                   ingestRun, reader, users, bulkRun, acctVars>>

\* The daily closes the backfill is asked for and the API returns: one per
\* instant, all with the same close and volume.
BackfillStart == StartTime - 1
BackfillEnd == StartTime
BackfillDates == (StartTime - 1)..MaxTime

\* fetch_historical_data, one pass of the loop over the time series: a date
\* inside the requested range is stored with get_or_create, and a created
\* row goes through StockPrice.save.
BackfillStore(s, date) ==
    /\ BackfillStart <= date /\ date <= BackfillEnd
    /\ prices' = get_or_create(s, date, 26, 7)
    /\ prices' # prices
    /\ cache' = CacheAfterSave(s)
    /\ UNCHANGED <<now, alerts, evalRun, tasks, notifications, ingestRun, restVars>>

\* Both ingestion jobs are on their last retry; the store holds one manual
\* row or none.
InitStore ==
    /\ now = StartTime
    /\ prices \in {{}, {NewPrice("AAPL", StartTime - 1, 3, 7, "MANUAL")}}
    /\ cache = [s \in Stocks |-> NoPrice]
    /\ alerts = [a \in AlertIds |->
                    IF a = 1 THEN NewAlert("AAPL", "PRICE_BELOW", 2, TRUE)
                    ELSE NewAlert("MSFT", "PRICE_ABOVE", 2, FALSE)]
    /\ evalRun = [r \in Runs |-> IdleRun]
    /\ tasks = <<>>
    /\ notifications = <<>>
    /\ ingestRun = [r \in IngestRuns |-> [IdleIngest EXCEPT !.retries = max_retries]]
    /\ reader = <<>>
    /\ saver = [w \in Savers |-> IdleSaver]
    /\ users = <<>>
    /\ bulkRun = <<>>
    /\ InitAcct

NextStore ==
    \/ \E r \in IngestRuns : IngestStart(r)
    \/ \E r \in IngestRuns : IngestFetch(r)
    \/ \E r \in IngestRuns : IngestStore(r)
    \/ \E s \in ManualStocks, d \in BackfillDates : BackfillStore(s, d)
    \/ \E w \in Savers, s \in ManualStocks, ts \in ManualTimes, p \in ManualPrices :
          ApiCreateValidate(w, s, ts, p)
    \/ \E w \in Savers : ApiCreateInsert(w)
    \/ \E w \in Savers : ApiInvalidate(w)
    \/ \E w \in Savers, old \in prices, p \in PatchedPrices : ApiPatchPrice(w, old, p)
    \/ \E w \in Savers, old \in prices, ts \in ManualTimes : ApiPutTimestamp(w, old, ts)

SpecStore == InitStore /\ [][NextStore]_vars

\* ------------------------------------------------------ latest-price readers
\* A latest_price call: `found` is the row the query returned, not yet put
\* in the cache; `result` is what the last call returned.
IdleReader == [pc |-> "idle", stock |-> "", found |-> NoPrice, result |-> NoPrice]

\* latest_price, lines 39-43: cache.get; a hit is returned at once.
ReaderGet(rd, s) ==
    /\ reader[rd].pc = "idle"
    /\ reader' = [reader EXCEPT ![rd] =
           IF cache[s] # NoPrice
           THEN [pc |-> "idle", stock |-> s, found |-> NoPrice, result |-> cache[s]]
           ELSE [pc |-> "query", stock |-> s, found |-> NoPrice, result |-> NoPrice]]
    /\ UNCHANGED <<now, prices, cache, alerts, evalRun, tasks, notifications,
                   ingestRun, saver, users, bulkRun, acctVars>>

\* Lines 45-46, 50-51: the query for the newest row; None when there is none.
ReaderQuery(rd) ==
    /\ reader[rd].pc = "query"
    /\ reader' = [reader EXCEPT ![rd] =
           IF HasPrice(reader[rd].stock)
           THEN [reader[rd] EXCEPT !.pc = "set", !.found = Latest(reader[rd].stock)]
           ELSE [reader[rd] EXCEPT !.pc = "idle"]]
    /\ UNCHANGED <<now, prices, cache, alerts, evalRun, tasks, notifications,
                   ingestRun, saver, users, bulkRun, acctVars>>

\* Lines 47-49: cache.set of the row found, which is then returned.
ReaderSet(rd) ==
    /\ reader[rd].pc = "set"
    /\ cache' = [cache EXCEPT ![reader[rd].stock] = reader[rd].found]
    /\ reader' = [reader EXCEPT ![rd].pc = "idle", ![rd].found = NoPrice,
                                ![rd].result = reader[rd].found]
    /\ UNCHANGED <<now, prices, alerts, evalRun, tasks, notifications,
                   ingestRun, saver, users, bulkRun, acctVars>>

\* Readers and API creates interleaved statement by statement.
InitCache ==
    /\ now = StartTime
    /\ prices = {NewPrice("AAPL", 0, 3, 7, "MANUAL")}
    /\ cache = [s \in Stocks |-> NoPrice]
    /\ alerts = [a \in AlertIds |->
                    IF a = 1 THEN NewAlert("AAPL", "PRICE_BELOW", 2, TRUE)
                    ELSE NewAlert("MSFT", "PRICE_ABOVE", 2, FALSE)]
    /\ evalRun = [r \in Runs |-> IdleRun]
    /\ tasks = <<>>
    /\ notifications = <<>>
    /\ ingestRun = <<>>
    /\ reader = [rd \in Readers |-> IdleReader]
    /\ saver = [w \in Savers |-> IdleSaver]
    /\ users = <<>>
    /\ bulkRun = <<>>
    /\ InitAcct

NextCache ==
    \/ Tick
    \/ \E s \in Stocks : CacheExpire(s)
    \/ \E rd \in Readers, s \in Stocks : ReaderGet(rd, s)
    \/ \E rd \in Readers : ReaderQuery(rd)
    \/ \E rd \in Readers : ReaderSet(rd)
    \/ \E w \in Savers, s \in ManualStocks, ts \in 0..MaxTime, p \in ManualPrices :
          ApiCreateValidate(w, s, ts, p)
    \/ \E w \in Savers : ApiCreateInsert(w)
    \/ \E w \in Savers : ApiInvalidate(w)

SpecCache == InitCache /\ [][NextCache]_vars

\* One operation at a time: a whole latest_price call, or a whole create
\* request, is one step.
LatestPriceCall(rd, s) ==
    /\ reader' = [reader EXCEPT ![rd] =
           [pc |-> "idle", stock |-> s, found |-> NoPrice, result |-> latest_price(s)]]
    /\ cache' = CacheAfterLatestPrice(s)
    /\ UNCHANGED <<now, prices, alerts, evalRun, tasks, notifications,
                   ingestRun, saver, users, bulkRun, acctVars>>

ApiCreate(w, s, ts, p) ==
    /\ ts <= now
    /\ RowsAt(prices, s, ts) = {}
    /\ unique_stock_price_timestamp(prices, NewPrice(s, ts, p, 0, "MANUAL"))
    /\ prices' = prices \cup {NewPrice(s, ts, p, 0, "MANUAL")}
    /\ cache' = CacheAfterSave(s)
    /\ saver' = [saver EXCEPT ![w] = [IdleSaver EXCEPT !.outcome = "created"]]
    /\ UNCHANGED <<now, alerts, evalRun, tasks, notifications,
                   ingestRun, reader, users, bulkRun, acctVars>>

NextCacheSeq ==
    \/ Tick
    \/ \E s \in Stocks : CacheExpire(s)
    \/ \E rd \in Readers, s \in Stocks : LatestPriceCall(rd, s)
    \/ \E w \in Savers, s \in Stocks, ts \in 0..MaxTime, p \in ManualPrices :
          ApiCreate(w, s, ts, p)

SpecCacheSeq == InitCache /\ [][NextCacheSeq]_vars

\* ------------------------------------------------------------- alert API
\* The users that send alert requests, and what they send.
ApiUsers == {1, 2}
SymbolInputs == Stocks \cup {"NOPE"}
\* Thresholds in 1/10000: negative, zero, positive, and above 100.
ThresholdInputs == {-1, 0, 2, 1000001}

\* PriceAlertSerializer.validate_threshold_value: the value is accepted.
validate_threshold_value(value) == value > 0

\* PriceAlertSerializer.validate for a request without `stock`: a
\* PERCENT_CHANGE threshold above 100 is refused.
validate(condition_type, threshold_value) ==
    ~(condition_type = "PERCENT_CHANGE" /\ threshold_value > 100 * 10000)

\* POST /alerts/: get_serializer_class answers CreatePriceAlertSerializer for
\* the create action.  Its fields check that the symbol names an active
\* stock, that the condition is one of the choices and that the threshold is
\* a decimal; create() inserts the row for request.user.
AlertCreate(u, sym, c, th, ot) ==
    /\ Len(alerts) < Cardinality(AlertIds)
    /\ sym \in Stocks
    /\ c \in CONDITION_TYPES
    /\ alerts' = Append(alerts, [NewAlert(sym, c, th, ot) EXCEPT !.user = u])
    /\ UNCHANGED <<now, prices, cache, evalRun, tasks, notifications, ingestRun,
                   restVars>>

\* PATCH /alerts/<id>/ with condition_type and threshold_value:
\* PriceAlertSerializer on one of the user's own alerts (get_queryset).
AlertUpdate(u, a, c, th) ==
    /\ a \in DOMAIN alerts
    /\ alerts[a].user = u
    /\ validate_threshold_value(th)
    /\ validate(c, th)
    /\ alerts' = [alerts EXCEPT ![a].condition_type = c, ![a].threshold_value = th]
    /\ UNCHANGED <<now, prices, cache, evalRun, tasks, notifications, ingestRun,
                   restVars>>

InitAlertApi ==
    /\ now = StartTime
    /\ prices = {NewPrice("AAPL", StartTime, 1, 0, "ALPHA_VANTAGE"),
                 NewPrice("MSFT", StartTime, 3, 0, "ALPHA_VANTAGE")}
    /\ cache = [s \in Stocks |-> NoPrice]
    /\ alerts = <<>>
    /\ evalRun = [r \in Runs |-> IdleRun]
    /\ tasks = <<>>
    /\ notifications = <<>>
    /\ ingestRun = <<>>
    /\ InitRest

NextAlertApi ==
    \/ \E u \in ApiUsers, sym \in SymbolInputs, c \in CONDITION_TYPES,
          th \in ThresholdInputs, ot \in BOOLEAN : AlertCreate(u, sym, c, th, ot)
    \/ \E u \in ApiUsers, a \in AlertIds, c \in CONDITION_TYPES,
          th \in ThresholdInputs : AlertUpdate(u, a, c, th)

SpecAlertApi == InitAlertApi /\ [][NextAlertApi]_vars

\* C16: every stored alert has threshold_value > 0, whether it was made by
\* the create endpoint or changed by an update.
C16_ThresholdPositive ==
    \A a \in DOMAIN alerts : alerts[a].threshold_value > 0

\* ---------------------------------------------------- price store properties
\* C12: whenever no save is in progress (every StockPrice.save that started
\* has also deleted the cache key), a latest_price call for a stock returns a
\* row that is not older than the stock's newest stored row.
C12_NoStaleLatestPrice ==
    \A s \in Stocks :
        (HasPrice(s) /\ \A w \in Savers : saver[w].pc = "idle") =>
            latest_price(s).timestamp >= Latest(s).timestamp

\* C13: with one operation at a time, a save of a row for S that is newer
\* than every stored row of S, made while a latest price of S is cached, is
\* followed by a latest_price(S) that returns the new row; and every call
\* returns the newest stored row of its stock.
C13_ReadAfterWrite ==
    [][/\ \A s \in Stocks : \A row \in prices' \ prices :
            (/\ row.stock = s
             /\ cache[s] # NoPrice
             /\ \A q \in StockRows(prices, s) : q.timestamp < row.timestamp) =>
                latest_price(s)' = row
       /\ \A rd \in Readers :
            reader'[rd] # reader[rd] =>
                reader'[rd].result =
                    IF HasPrice(reader'[rd].stock) THEN Latest(reader'[rd].stock)
                    ELSE NoPrice]_vars

\* C13 witness: one reader was answered with a row of AAPL, a newer row was
\* saved, and the other reader was then answered with the new row, which is
\* the cached one.
C13_Witness ==
    \E a, b \in Readers :
        /\ reader[a].stock = "AAPL" /\ reader[b].stock = "AAPL"
        /\ reader[a].result # NoPrice
        /\ reader[a].result.timestamp < reader[b].result.timestamp
        /\ reader[b].result = Latest("AAPL")
        /\ cache["AAPL"] = reader[b].result
        /\ \E w \in Savers : saver[w].outcome = "created"

\* C11: under any interleaving of overlapping ingestion runs, backfills and
\* price API writes, the price store holds at most one row per
\* (stock, timestamp).
C11_UniquePerStockTimestamp ==
    \A p, q \in prices :
        (p.stock = q.stock /\ p.timestamp = q.timestamp) => p = q

\* C11 witness: a manual create that had passed validation was refused by the
\* constraint because ingestion or the backfill stored the key first, a
\* second ingestion run found the key taken too, and the key has one row.
C11_Witness ==
    \E w \in Savers, r \in IngestRuns :
        /\ saver[w].outcome = "IntegrityError"
        /\ ingestRun[r].created = "no"
        /\ Cardinality(RowsAt(prices, saver[w].row.stock, saver[w].row.timestamp)) = 1
        /\ \A p \in RowsAt(prices, saver[w].row.stock, saver[w].row.timestamp) :
               p.source = "ALPHA_VANTAGE"

\* C17: a stored price row is never changed: every step of ingestion, of the
\* backfill and of the price API keeps each row of the price store exactly as
\* it is (none of these operations deletes rows).
C17_PriceRowsImmutable ==
    [][prices \subseteq prices']_vars

\* ------------------------------------------------------ ingestion properties
\* C10: storing a quote for (stock, timestamp) that already has a row leaves
\* the price store as it is; after a store the key has exactly one row, which
\* carries the price and volume of the first write.
C10_IngestIdempotent ==
    [][\A r \in IngestRuns :
         (/\ ingestRun[r].pc = "store"
          /\ ingestRun'[r].pc # "store"
          /\ ingestRun'[r].created \in {"yes", "no"}) =>
            LET s  == ActiveStocks[ingestRun[r].i]
                pd == ingestRun[r].price_data
            IN  /\ RowsAt(prices, s, pd.timestamp) # {} => prices' = prices
                /\ Cardinality(RowsAt(prices', s, pd.timestamp)) = 1
                /\ RowsAt(prices, s, pd.timestamp) = {} =>
                      \A p \in RowsAt(prices', s, pd.timestamp) :
                          p.price = ToDecimal4(pd.price) /\ p.volume = pd.volume]_vars

\* C10 witness: the same (stock, timestamp) was ingested a second time with a
\* different price, and the single row still carries the first price.
C10_Witness ==
    \E r \in IngestRuns :
        /\ ingestRun[r].created = "no"
        /\ ingestRun[r].pc = "done"
        /\ LET rows == RowsAt(prices, "MSFT", ingestRun[r].price_data.timestamp)
           IN  /\ Cardinality(rows) = 1
               /\ \A p \in rows : p.price # ToDecimal4(ingestRun[r].price_data.price)

\* The fetch failed: a network error, an "Error Message" or "Note" answer, no
\* quote, or a quote that is malformed (the price field is absent, or the
\* price or the volume is not a number).
FetchFailed(resp) ==
    \/ resp.kind \in {"RequestException", "Error Message", "Note", "NoQuote"}
    \/ /\ resp.kind = "Global Quote"
       /\ (~resp.price.present \/ ~resp.price.numeric \/ ~resp.volume.numeric)

\* C14: in one ingestion cycle, a stock whose quote fetch failed gets no price
\* row written: the fetch step writes nothing, and no later step of the run
\* on that stock adds a row for it.
C14_FailedFetchStoresNothing ==
    [][\A r \in IngestRuns :
         /\ (ingestRun[r].pc = "fetch" /\ ingestRun'[r] # ingestRun[r]) =>
                prices' = prices
         /\ (FetchFailed(ingestRun[r].response) /\ ingestRun'[r] # ingestRun[r]) =>
                StockRows(prices', ActiveStocks[ingestRun[r].i])
                    = StockRows(prices, ActiveStocks[ingestRun[r].i])]_vars

\* C15: a failure while fetching or storing the price of one stock takes the
\* run to the next active stock (or to its end after the last one) and never
\* sends the whole job again: every step of a run inside the loop stays in
\* the loop with the same retry count, and leaves a stock only for the next.
C15_StockErrorContinues ==
    [][\A r \in IngestRuns :
         (ingestRun[r].pc \in {"fetch", "store"} /\ ingestRun'[r] # ingestRun[r]) =>
            /\ ingestRun'[r].retries = ingestRun[r].retries
            /\ \/ ingestRun'[r].pc = "store" /\ ingestRun'[r].i = ingestRun[r].i
               \/ /\ ingestRun[r].i < Len(ActiveStocks)
                  /\ ingestRun'[r].pc = "fetch"
                  /\ ingestRun'[r].i = ingestRun[r].i + 1
               \/ /\ ingestRun[r].i = Len(ActiveStocks)
                  /\ ingestRun'[r].pc = "done"
                  /\ ingestRun'[r].i = ingestRun[r].i]_vars

\* C15 witness: the first stock of a run raised, and the run is fetching the
\* second stock without having been sent again.
C15_Witness ==
    \E r \in IngestRuns :
        /\ ingestRun[r].pc = "fetch"
        /\ ingestRun[r].i = 2
        /\ ingestRun[r].created = "error"
        /\ ingestRun[r].retries = max_retries - 1

\* ------------------------------------------------------ evaluator properties
Dispatches(a) == {i \in DOMAIN tasks : tasks[i].alert_id = a}

Ended(r) == evalRun[r].pc \in {"done", "failed"}

\* C4: under any interleaving of two evaluator runs, each alert has a
\* notification dispatch enqueued at most once.
C4_AtMostOnceTriggering ==
    \A a \in AlertIds : Cardinality(Dispatches(a)) <= 1

\* C5: the step that evaluates check_condition answers true exactly when
\* (PRICE_ABOVE and price > threshold) or (PRICE_BELOW and price < threshold),
\* never for PERCENT_CHANGE, and changes no stored state.
C5_CheckCondition ==
    [][\A r \in Runs :
         (evalRun[r].pc = "check" /\ evalRun'[r].pc # "check") =>
            LET al == evalRun[r].mem[Cur(r)]
                lp == evalRun[r].latest_price
            IN  /\ (evalRun'[r].pc = "trigger") <=>
                      \/ al.condition_type = "PRICE_ABOVE" /\ lp.price > al.threshold_value
                      \/ al.condition_type = "PRICE_BELOW" /\ lp.price < al.threshold_value
                /\ evalRun'[r].pc \in {"trigger", "save"}
                /\ UNCHANGED <<prices, cache, alerts, tasks, notifications>>]_vars

\* C5 witness: a price equal to the threshold was checked and did not trigger.
C5_Witness ==
    \E r \in Runs :
        /\ evalRun[r].pc = "save"
        /\ evalRun[r].mem[Cur(r)].triggered_at = NULL
        /\ evalRun[r].mem[Cur(r)].condition_type \in {"PRICE_ABOVE", "PRICE_BELOW"}
        /\ evalRun[r].latest_price.price = evalRun[r].mem[Cur(r)].threshold_value

\* C6: after the evaluator's trigger() of an alert, triggered_at is set; a
\* one_time alert is inactive and an alert that is not one_time is active.
C6_TriggerEffect ==
    [][\A r \in Runs :
         (evalRun[r].pc = "trigger" /\ evalRun'[r].pc = "enqueue") =>
            LET a == Cur(r)
            IN  /\ alerts'[a].triggered_at # NULL
                /\ alerts[a].one_time => ~alerts'[a].is_active
                /\ ~alerts[a].one_time => alerts'[a].is_active]_vars

\* C6 witness: a one_time alert and an alert that is not one_time have both
\* been triggered.
C6_Witness ==
    /\ alerts[1].one_time /\ alerts[1].triggered_at # NULL /\ ~alerts[1].is_active
    /\ ~alerts[2].one_time /\ alerts[2].triggered_at # NULL /\ alerts[2].is_active

\* C7 as claimed: a run that looks up the latest price while the alert's
\* stock has no price row goes on to the next alert and changes nothing.
C7_NoPriceRowSkips ==
    [][\A r \in Runs :
         (/\ evalRun[r].pc = "lookup"
          /\ evalRun'[r] # evalRun[r]
          /\ ~HasPrice(evalRun[r].mem[Cur(r)].stock)) =>
            /\ evalRun'[r].pc # "check"
            /\ UNCHANGED <<alerts, tasks>>]_vars

\* C7 amended: a run whose lookup finds neither a price row nor a cached
\* latest price for the alert's stock goes on to the next alert (or ends) and
\* changes no alert and enqueues nothing.
C7_NoLatestPriceSkips ==
    [][\A r \in Runs :
         (/\ evalRun[r].pc = "lookup"
          /\ evalRun'[r] # evalRun[r]
          /\ ~HasPrice(evalRun[r].mem[Cur(r)].stock)
          /\ cache[evalRun[r].mem[Cur(r)].stock] = NoPrice) =>
            /\ evalRun'[r].pc # "check"
            /\ UNCHANGED <<alerts, tasks>>]_vars

\* C7 witness: a run has passed alert 2, whose stock has no price, and alert 2
\* is as it was created.
C7_Witness ==
    \E r \in Runs :
        /\ evalRun[r].sel = <<2, 1>>
        /\ evalRun[r].i = 2
        /\ evalRun[r].pc = "lookup"
        /\ ~HasPrice("MSFT") /\ cache["MSFT"] = NoPrice
        /\ alerts[2].last_checked_at = NULL
        /\ alerts[2].triggered_at = NULL
        /\ alerts[2].is_active
        /\ Dispatches(2) = {}

\* The stock of the alert has a latest price: a cached one or a stored row.
HasLatestPrice(a) == cache[alerts[a].stock] # NoPrice \/ HasPrice(alerts[a].stock)

\* C8: once a run has ended, every alert it selected whose stock has a latest
\* price has last_checked_at set (the alert whose own processing raised set
\* aside); an alert whose condition was not met has no dispatch.
C8_LastCheckedAlwaysSet ==
    \A r \in Runs :
        Ended(r) =>
            \A k \in 1..Len(evalRun[r].sel) :
                LET a == evalRun[r].sel[k]
                IN  /\ (HasLatestPrice(a) /\ ~(evalRun[r].pc = "failed" /\ k = evalRun[r].i))
                          => alerts[a].last_checked_at # NULL
                    /\ alerts[a].triggered_at = NULL => Dispatches(a) = {}

\* C9: when processing one alert raises, the remaining selected alerts are
\* still evaluated: a run ends only after entering the loop body of its last
\* selected alert.
C9_LoopContinuesAfterError ==
    \A r \in Runs : Ended(r) => evalRun[r].i = Len(evalRun[r].sel)

\* ------------------------------------------------------ notification inbox
ReadRequests == {"tab1", "tab2"}
ReadUsers == {1, 2}

\* The notification_ids a mark_read request can carry.
IdLists == {<<1>>, <<2>>, <<1, 2>>, <<1, 1>>, <<3>>}

\* A row as the dispatcher leaves it after a successful send.
SentNotification(u, a) ==
    [user |-> u, alert |-> a, notification_type |-> "PRICE_ALERT",
     channel |-> "EMAIL", status |-> "SENT", sent_at |-> StartTime, error_message |-> "",
     read_at |-> NULL, task |-> 0]

\* mark_as_read that writes read_at whether or not it is already set.
mark_as_read_always(n) == [n EXCEPT !.read_at = now]

\* Notification.mark_as_read on the instance in memory: read_at is written
\* only if the instance has none.
mark_as_read(n) == IF n.read_at = NULL THEN [n EXCEPT !.read_at = now] ELSE n

\* Notification.objects.filter(id__in=value, user=request.user)
OwnedIn(value, u) ==
    {n \in 1..Len(notifications) :
        /\ \E k \in 1..Len(value) : value[k] = n
        /\ notifications[n].user = u}

IdleRead == [pc |-> "idle", user |-> 0, ids |-> <<>>, mem |-> <<>>, i |-> 0]

\* Lines 76-82 and validate_notification_ids: the rows are loaded once, by
\* list(notifications); a count that differs from the number of ids sent
\* rejects the request.
MarkReadValidate(rq, u, value) ==
    /\ request[rq].pc = "idle"
    /\ LET found == OwnedIn(value, u)
           ids   == NewestFirst(found)
       IN  request' = [request EXCEPT ![rq] =
               IF Cardinality(found) # Len(value)
               THEN [IdleRead EXCEPT !.pc = "rejected", !.user = u]
               ELSE [pc |-> "marking", user |-> u, ids |-> ids,
                     mem |-> [k \in 1..Len(ids) |-> notifications[ids[k]]], i |-> 1]]
    /\ UNCHANGED <<now, prices, cache, alerts, evalRun, tasks, notifications, ingestRun,
                   reader, saver, users, bulkRun, profiles, watchlists, api_keys>>

\* Lines 84-85: one pass of the loop.  save(update_fields=['read_at']) writes
\* that column only, and only when mark_as_read changed the instance.  The
\* loop does not use an instance again, so `mem` keeps the rows as loaded.
MarkReadNext(rq) ==
    /\ request[rq].pc = "marking"
    /\ LET v == request[rq]
           n == v.ids[v.i]
           m == mark_as_read(v.mem[v.i])
       IN  /\ notifications' =
                  IF m # v.mem[v.i]
                  THEN [notifications EXCEPT ![n].read_at = m.read_at]
                  ELSE notifications
           /\ request' = [request EXCEPT ![rq] =
                  [v EXCEPT !.i = v.i + 1,
                            !.pc = IF v.i < Len(v.ids) THEN "marking" ELSE "done"]]
    /\ UNCHANGED <<now, prices, cache, alerts, evalRun, tasks, ingestRun,
                   reader, saver, users, bulkRun, profiles, watchlists, api_keys>>

\* Two notifications of user 1, or one of each user; nothing is read yet.
InitRead ==
    /\ now = StartTime
    /\ prices = {}
    /\ cache = [s \in Stocks |-> NoPrice]
    /\ alerts = <<>>
    /\ evalRun = <<>>
    /\ tasks = <<>>
    /\ \E u \in ReadUsers :
          notifications = <<SentNotification(1, 1), SentNotification(u, 2)>>
    /\ ingestRun = <<>>
    /\ reader = <<>>
    /\ saver = <<>>
    /\ users = <<>>
    /\ bulkRun = <<>>
    /\ profiles = <<>>
    /\ watchlists = <<>>
    /\ api_keys = <<>>
    /\ request = [rq \in ReadRequests |-> IdleRead]

NextRead ==
    \/ Tick
    \/ \E rq \in ReadRequests, u \in ReadUsers, value \in IdLists :
          MarkReadValidate(rq, u, value)
    \/ \E rq \in ReadRequests : MarkReadNext(rq)

SpecRead == InitRead /\ [][NextRead]_vars

RawKey == <<"Zq3vT8mLx0", "raw">>
HashedKey == <<"9f2c41ab07", "digest">>
ForgedKey == <<"9f2c41ab07", "forged">>
PresentedKeys == {RawKey, HashedKey, ForgedKey}

\* hashlib.sha256(raw_key.encode()).hexdigest()
sha256(key) == IF key = RawKey THEN HashedKey ELSE <<"e3b0c44298", "other">>

\* f'api_key:{key[:10]}'
api_key_cache_key(key) == key[1]
ApiKeyCacheKeys == {api_key_cache_key(k) : k \in PresentedKeys}

KeyUsers == {1}
ExpiryTimes == {NULL, StartTime}

\* APIKey.is_valid
is_valid(k) ==
    IF ~k.is_active THEN FALSE
    ELSE IF k.expires_at # NULL /\ k.expires_at < now THEN FALSE
    ELSE TRUE

\* APIKeyManager.create_key, and create_apikey's expires_at.
create_key(u, raw_key, expires_at) ==
    [user |-> u, key |-> sha256(raw_key), is_active |-> TRUE,
     last_used_at |-> NULL, expires_at |-> expires_at]

\* APIKey.objects.get(key=key, is_active=True)
ActiveKeyRows(key) ==
    {i \in 1..Len(api_keys) : api_keys[i].key = key /\ api_keys[i].is_active}

NoAuth == [key |-> <<>>, result |-> "none", user |-> NULL, cached |-> FALSE]

\* _authenticate_credentials, lines 66-77: the cached user id is accepted if
\* that user is active; the api_keys table is not read.
AuthenticateCached(key) ==
    /\ cache[api_key_cache_key(key)] # NULL
    /\ users[cache[api_key_cache_key(key)]].is_active
    /\ request' = [key |-> key, result |-> "authenticated",
                   user |-> cache[api_key_cache_key(key)], cached |-> TRUE]
    /\ UNCHANGED <<now, prices, cache, alerts, evalRun, tasks, notifications, ingestRun,
                   reader, saver, users, bulkRun, profiles, watchlists, api_keys>>

\* Lines 68-97 when the cache has no entry, or its user is gone (the entry is
\* then deleted): the key is looked up by key and is_active, its usage is
\* recorded and the user id is cached for 300 s.
AuthenticateDb(key) ==
    /\ LET ck    == api_key_cache_key(key)
           stale == cache[ck] # NULL /\ ~users[cache[ck]].is_active
           rows  == ActiveKeyRows(key)
       IN  /\ cache[ck] = NULL \/ stale
           /\ IF rows = {}
              THEN /\ request' = [key |-> key, result |-> "AuthenticationFailed",
                                  user |-> NULL, cached |-> FALSE]
                   /\ cache' = [cache EXCEPT ![ck] = NULL]
                   /\ UNCHANGED api_keys
              ELSE LET i == CHOOSE i \in rows : TRUE
                   IN  /\ api_keys' = [api_keys EXCEPT ![i].last_used_at = now]
                       /\ cache' = [cache EXCEPT ![ck] = api_keys[i].user]
                       /\ request' = [key |-> key, result |-> "authenticated",
                                      user |-> api_keys[i].user, cached |-> FALSE]
    /\ UNCHANGED <<now, prices, alerts, evalRun, tasks, notifications, ingestRun,
                   reader, saver, users, bulkRun, profiles, watchlists>>

\* The 300 s of cache.set run out.
ApiKeyCacheExpire(ck) ==
    /\ cache[ck] # NULL
    /\ cache' = [cache EXCEPT ![ck] = NULL]
    /\ UNCHANGED <<now, prices, alerts, evalRun, tasks, notifications, ingestRun,
                   reader, saver, users, bulkRun, profiles, watchlists, api_keys, request>>

\* APIKey.revoke: save(update_fields=['is_active']).
revoke(i) ==
    /\ api_keys[i].is_active
    /\ api_keys' = [api_keys EXCEPT ![i].is_active = FALSE]
    /\ UNCHANGED <<now, prices, cache, alerts, evalRun, tasks, notifications, ingestRun,
                   reader, saver, users, bulkRun, profiles, watchlists, request>>

\* User.soft_delete
soft_delete(u) ==
    /\ users[u].is_active
    /\ users' = [users EXCEPT ![u].is_active = FALSE]
    /\ UNCHANGED <<now, prices, cache, alerts, evalRun, tasks, notifications, ingestRun,
                   reader, saver, bulkRun, profiles, watchlists, api_keys, request>>

\* One service account with one key, made by create_apikey with or without
\* an expiry; nothing is cached.
InitAuth ==
    /\ now = StartTime
    /\ prices = {}
    /\ cache = [ck \in ApiKeyCacheKeys |-> NULL]
    /\ alerts = <<>>
    /\ evalRun = <<>>
    /\ tasks = <<>>
    /\ notifications = <<>>
    /\ ingestRun = <<>>
    /\ reader = <<>>
    /\ saver = <<>>
    /\ users = [u \in KeyUsers |-> [is_active |-> TRUE]]
    /\ bulkRun = <<>>
    /\ profiles = <<>>
    /\ watchlists = <<>>
    /\ \E e \in ExpiryTimes : api_keys = <<create_key(1, RawKey, e)>>
    /\ request = NoAuth

NextAuth ==
    \/ Tick
    \/ \E key \in PresentedKeys : AuthenticateCached(key)
    \/ \E key \in PresentedKeys : AuthenticateDb(key)
    \/ \E ck \in ApiKeyCacheKeys : ApiKeyCacheExpire(ck)
    \/ \E i \in 1..Len(api_keys) : revoke(i)
    \/ \E u \in KeyUsers : soft_delete(u)

SpecAuth == InitAuth /\ [][NextAuth]_vars

\* C26: a request is authenticated only if the key it presents has an
\* APIKey record that is active and not expired at that moment, whether or
\* not the answer comes from the cached api_key entry.
C26_OnlyValidKeysAuthenticate ==
    [][(request' # request /\ request'.result = "authenticated") =>
          \E i \in 1..Len(api_keys) :
              /\ api_keys[i].key \in {request'.key, sha256(request'.key)}
              /\ is_valid(api_keys[i])]_vars

\* ---------------------------------------------------- accounts and profiles
MaxUsers == 2
ACCOUNT_TIERS == {"STANDARD", "PREMIUM", "ADMIN"}

\* What the admin form can put into the max_watchlists field.
MaxWatchlistInputs == {1, 5}
AcctRequests == {"web"}

\* Profile.save that stores max_watchlists as it finds it.
Profile_save_as_is(p) == p

\* Profile.save: max_watchlists is set from account_tier, then the row is
\* written.
Profile_save(p) ==
    [p EXCEPT !.max_watchlists =
        IF p.account_tier = "STANDARD" THEN 1
        ELSE IF p.account_tier = "PREMIUM" THEN 10
        ELSE 999]

\* Profile(user=instance) with the field defaults.
NewProfile(u) == [user |-> u, account_tier |-> "STANDARD", max_watchlists |-> 1]

ProfilesOf(P, u) == {i \in 1..Len(P) : P[i].user = u}

\* A receiver that makes a profile on every save of a user.
create_user_profile_on_every_save(P, u, created) ==
    Append(P, Profile_save(NewProfile(u)))

\* signals.create_user_profile: Profile.objects.create(user=instance), on
\* the save that created the user only.
create_user_profile(P, u, created) ==
    IF created THEN Append(P, Profile_save(NewProfile(u))) ELSE P

NoProfile == [user |-> 0, account_tier |-> "", max_watchlists |-> 0]

\* signals.save_user_profile: instance.profile is the profile the instance
\* has cached, or else the row of the user; it is saved whole.
save_user_profile(P, u, cached) ==
    IF ProfilesOf(P, u) = {} THEN P
    ELSE LET i == CHOOSE i \in ProfilesOf(P, u) : TRUE
             m == IF cached = NoProfile THEN P[i] ELSE cached
         IN  [P EXCEPT ![i] = Profile_save(m)]

\* The post_save receivers of User, in the order they are connected.
post_save(P, u, created, cached) ==
    save_user_profile(create_user_profile(P, u, created), u, cached)

IdleAcct == [pc |-> "idle", user |-> 0, profile |-> NoProfile]

\* UserManager.create_user / create_superuser: user.save() and its
\* receivers.
CreateUser(is_staff) ==
    /\ Len(users) < MaxUsers
    /\ users' = Append(users, [is_active |-> TRUE, is_staff |-> is_staff])
    /\ profiles' = post_save(profiles, Len(users) + 1, TRUE, NoProfile)
    /\ UNCHANGED <<now, prices, cache, alerts, evalRun, tasks, notifications, ingestRun,
                   reader, saver, bulkRun, watchlists, api_keys, request>>

\* A request loads its user; for a user who is not staff the throttle reads
\* request.user.profile, which stays cached on the instance.
UserLoad(rq, u) ==
    /\ request[rq].pc = "idle"
    /\ ProfilesOf(profiles, u) # {}
    /\ request' = [request EXCEPT ![rq] =
           [pc |-> "loaded", user |-> u,
            profile |-> IF users[u].is_staff THEN NoProfile
                        ELSE profiles[CHOOSE i \in ProfilesOf(profiles, u) : TRUE]]]
    /\ UNCHANGED <<now, prices, cache, alerts, evalRun, tasks, notifications, ingestRun,
                   reader, saver, users, bulkRun, profiles, watchlists, api_keys>>

\* A later save of the user (change_password, soft_delete): the receivers
\* run with created=False.
UserSave(rq, is_active) ==
    /\ request[rq].pc = "loaded"
    /\ users' = [users EXCEPT ![request[rq].user].is_active = is_active]
    /\ profiles' = post_save(profiles, request[rq].user, FALSE, request[rq].profile)
    /\ request' = [request EXCEPT ![rq] = IdleAcct]
    /\ UNCHANGED <<now, prices, cache, alerts, evalRun, tasks, notifications, ingestRun,
                   reader, saver, bulkRun, watchlists, api_keys>>

\* ProfileAdmin: account_tier and max_watchlists are both form fields.
AdminProfileChange(i, tier, max_watchlists) ==
    /\ profiles' = [profiles EXCEPT ![i] =
           Profile_save([profiles[i] EXCEPT !.account_tier = tier,
                                            !.max_watchlists = max_watchlists])]
    /\ UNCHANGED <<now, prices, cache, alerts, evalRun, tasks, notifications, ingestRun,
                   reader, saver, users, bulkRun, watchlists, api_keys, request>>

\* ProfileSerializer.validate_account_tier: only staff may send a tier that
\* differs from the stored one.
validate_account_tier(u, i, value) ==
    users[u].is_staff \/ profiles[i].account_tier = value

\* UserViewSet.update_profile: max_watchlists is read-only here.
update_profile(u, tier) ==
    /\ ProfilesOf(profiles, u) # {}
    /\ LET i == CHOOSE i \in ProfilesOf(profiles, u) : TRUE
       IN  /\ validate_account_tier(u, i, tier)
           /\ profiles' = [profiles EXCEPT ![i] =
                  Profile_save([profiles[i] EXCEPT !.account_tier = tier])]
    /\ UNCHANGED <<now, prices, cache, alerts, evalRun, tasks, notifications, ingestRun,
                   reader, saver, users, bulkRun, watchlists, api_keys, request>>

InitAccounts ==
    /\ now = StartTime
    /\ prices = {}
    /\ cache = <<>>
    /\ alerts = <<>>
    /\ evalRun = <<>>
    /\ tasks = <<>>
    /\ notifications = <<>>
    /\ ingestRun = <<>>
    /\ reader = <<>>
    /\ saver = <<>>
    /\ users = <<>>
    /\ bulkRun = <<>>
    /\ profiles = <<>>
    /\ watchlists = <<>>
    /\ api_keys = <<>>
    /\ request = [rq \in AcctRequests |-> IdleAcct]

NextAccounts ==
    \/ \E is_staff \in BOOLEAN : CreateUser(is_staff)
    \/ \E rq \in AcctRequests, u \in 1..Len(users) : UserLoad(rq, u)
    \/ \E rq \in AcctRequests, is_active \in BOOLEAN : UserSave(rq, is_active)
    \/ \E i \in 1..Len(profiles), tier \in ACCOUNT_TIERS, m \in MaxWatchlistInputs :
          AdminProfileChange(i, tier, m)
    \/ \E u \in 1..Len(users), tier \in ACCOUNT_TIERS : update_profile(u, tier)

SpecAccounts == InitAccounts /\ [][NextAccounts]_vars

\* C22: every user has exactly one profile, whatever users were created and
\* saved; the save that creates a user creates its profile as STANDARD with
\* max_watchlists 1, and no other step adds a profile.
C22_OneProfilePerUser ==
    /\ [](\A u \in 1..Len(users) : Cardinality(ProfilesOf(profiles, u)) = 1)
    /\ [][/\ Len(users') > Len(users) =>
                /\ Len(profiles') = Len(profiles) + 1
                /\ profiles'[Len(profiles')] =
                      [user |-> Len(users'), account_tier |-> "STANDARD",
                       max_watchlists |-> 1]
          /\ Len(users') = Len(users) => Len(profiles') = Len(profiles)]_vars

\* Two users exist, one of them was saved again after its creation, and
\* each has its profile.
C22_Witness ==
    /\ Len(users) = MaxUsers
    /\ \E u \in 1..Len(users) : ~users[u].is_active
    /\ \A u \in 1..Len(users) : ProfilesOf(profiles, u) # {}

\* C23: every stored profile carries the limit of its tier: 1 for STANDARD,
\* 10 for PREMIUM, 999 for ADMIN, whatever max_watchlists was given to the
\* save.
C23_LimitFollowsTier ==
    \A i \in 1..Len(profiles) :
        /\ profiles[i].account_tier = "STANDARD" => profiles[i].max_watchlists = 1
        /\ profiles[i].account_tier = "PREMIUM" => profiles[i].max_watchlists = 10
        /\ profiles[i].account_tier = "ADMIN" => profiles[i].max_watchlists = 999

\* Profiles saved as PREMIUM and as ADMIN are stored.
C23_Witness ==
    /\ \E i \in 1..Len(profiles) : profiles[i].account_tier = "PREMIUM"
    /\ \E i \in 1..Len(profiles) : profiles[i].account_tier = "ADMIN"

\* --------------------------------------------------------------- watchlists
WlRequests == {"r1", "r2"}
WlUsers == {1, 2}
WlNames == {"Main", "Tech"}

\* The id of the row a create request inserts.
RowId(rq) == IF rq = "r1" THEN 2 ELSE 3

\* A model whose new instances have no primary key until they are stored.
no_pk_default(rq) == NULL

\* id = UUIDField(primary_key=True, default=uuid.uuid4): a new instance has
\* its primary key from the moment it is constructed.
uuid4_default(rq) == RowId(rq)

WatchlistsOf(u) == {w \in watchlists : w.user = u}

ProfileOf(u) == profiles[CHOOSE i \in ProfilesOf(profiles, u) : TRUE]

\* CanCreateMultipleWatchlists.has_permission for a POST.
has_permission(u) ==
    IF users[u].is_staff THEN TRUE
    ELSE IF Cardinality(WatchlistsOf(u)) >= ProfileOf(u).max_watchlists THEN FALSE
    ELSE TRUE

\* WatchlistSerializer.validate_name
validate_name(u, pk, value) ==
    ~\E w \in WatchlistsOf(u) : w.name = value /\ w.id # pk

\* Watchlist.clean: the count is compared with the limit only for an
\* instance without a primary key.
clean(self) ==
    IF self.pk = NULL
    THEN Cardinality(WatchlistsOf(self.user)) < ProfileOf(self.user).max_watchlists
    ELSE TRUE

IdleWl == [pc |-> "idle", kind |-> "", user |-> 0, pk |-> NULL, id |-> 0, name |-> "",
           is_default |-> FALSE, cleared |-> {}]

\* WatchlistViewSet.create, first part: the permission of the create action.
WlCreatePermission(rq, u, name, is_default) ==
    /\ request[rq].pc = "idle"
    /\ request' = [request EXCEPT ![rq] =
           [IdleWl EXCEPT !.pc = IF has_permission(u) THEN "validate" ELSE "denied",
                          !.kind = "create", !.user = u, !.name = name,
                          !.is_default = is_default, !.id = RowId(rq)]]
    /\ UNCHANGED <<now, prices, cache, alerts, evalRun, tasks, notifications, ingestRun,
                   reader, saver, users, bulkRun, profiles, watchlists, api_keys>>

\* serializer.is_valid, then serializer.create builds the instance.
WlCreateValidate(rq) ==
    /\ request[rq].pc = "validate"
    /\ request' = [request EXCEPT ![rq] =
           IF validate_name(request[rq].user, NULL, request[rq].name)
           THEN [request[rq] EXCEPT !.pc = "save", !.pk = uuid4_default(rq)]
           ELSE [request[rq] EXCEPT !.pc = "invalid_name"]]
    /\ UNCHANGED <<now, prices, cache, alerts, evalRun, tasks, notifications, ingestRun,
                   reader, saver, users, bulkRun, profiles, watchlists, api_keys>>

\* A PATCH of is_default on one of the user's watchlists: get_object loads
\* the instance and the serializer sets the field.
WlUpdateLoad(rq, w, is_default) ==
    /\ request[rq].pc = "idle"
    /\ w \in watchlists
    /\ request' = [request EXCEPT ![rq] =
           [IdleWl EXCEPT !.pc = "save", !.kind = "update", !.user = w.user,
                          !.pk = w.id, !.id = w.id, !.name = w.name,
                          !.is_default = is_default]]
    /\ UNCHANGED <<now, prices, cache, alerts, evalRun, tasks, notifications, ingestRun,
                   reader, saver, users, bulkRun, profiles, watchlists, api_keys>>

\* Watchlist.save, lines 107-114: an instance without a primary key whose
\* user has no watchlist becomes the default; an instance that is the default
\* clears the flag of the user's other watchlists with a queryset update.
WlSaveDefault(rq) ==
    /\ request[rq].pc = "save"
    /\ LET v     == request[rq]
           first == v.pk = NULL /\ WatchlistsOf(v.user) = {}
           dflt  == IF first THEN TRUE ELSE v.is_default
           hit   == IF dflt
                    THEN {w \in WatchlistsOf(v.user) : w.is_default /\ w.id # v.pk}
                    ELSE {}
       IN  /\ watchlists' = (watchlists \ hit) \cup
                                {[w EXCEPT !.is_default = FALSE] : w \in hit}
           /\ request' = [request EXCEPT ![rq] =
                  [v EXCEPT !.pc = "clean", !.is_default = dflt,
                            !.cleared = {w.id : w \in hit}]]
    /\ UNCHANGED <<now, prices, cache, alerts, evalRun, tasks, notifications, ingestRun,
                   reader, saver, users, bulkRun, profiles, api_keys>>

\* Watchlist.save, line 117: self.clean() may raise ValidationError.
WlSaveClean(rq) ==
    /\ request[rq].pc = "clean"
    /\ request' = [request EXCEPT ![rq].pc =
           IF clean(request[rq]) THEN "write" ELSE "invalid"]
    /\ UNCHANGED <<now, prices, cache, alerts, evalRun, tasks, notifications, ingestRun,
                   reader, saver, users, bulkRun, profiles, watchlists, api_keys>>

\* Watchlist.save, line 118: super().save() inserts the row of a create, or
\* rewrites the row of an update; unique_user_watchlist_name refuses a second
\* row with the same user and name.
WlSaveWrite(rq) ==
    /\ request[rq].pc = "write"
    /\ LET v   == request[rq]
           row == [id |-> v.id, user |-> v.user, name |-> v.name,
                   is_default |-> v.is_default]
           old == {w \in watchlists : w.id = v.id}
       IN  IF \E w \in WatchlistsOf(v.user) : w.name = v.name /\ w.id # v.id
           THEN /\ request' = [request EXCEPT ![rq].pc = "integrity_error"]
                /\ UNCHANGED watchlists
           ELSE /\ watchlists' = (watchlists \ old) \cup {row}
                /\ request' = [request EXCEPT ![rq].pc = "done"]
    /\ UNCHANGED <<now, prices, cache, alerts, evalRun, tasks, notifications, ingestRun,
                   reader, saver, users, bulkRun, profiles, api_keys>>

\* User 1 is a customer, STANDARD or PREMIUM, with no watchlist or with the
\* watchlist "Main"; user 2 is a staff member with a STANDARD profile.
InitWatchlist ==
    /\ now = StartTime
    /\ prices = {}
    /\ cache = <<>>
    /\ alerts = <<>>
    /\ evalRun = <<>>
    /\ tasks = <<>>
    /\ notifications = <<>>
    /\ ingestRun = <<>>
    /\ reader = <<>>
    /\ saver = <<>>
    /\ users = <<[is_active |-> TRUE, is_staff |-> FALSE],
                 [is_active |-> TRUE, is_staff |-> TRUE]>>
    /\ bulkRun = <<>>
    /\ \E tier \in {"STANDARD", "PREMIUM"} :
          profiles = <<Profile_save([NewProfile(1) EXCEPT !.account_tier = tier]),
                       Profile_save(NewProfile(2))>>
    /\ \E d \in BOOLEAN :
          watchlists \in {{}, {[id |-> 1, user |-> 1, name |-> "Main", is_default |-> d]}}
    /\ api_keys = <<>>
    /\ request = [rq \in WlRequests |-> IdleWl]

NextWatchlist ==
    \/ \E rq \in WlRequests, u \in WlUsers, name \in WlNames, d \in BOOLEAN :
          WlCreatePermission(rq, u, name, d)
    \/ \E rq \in WlRequests : WlCreateValidate(rq)
    \/ \E rq \in WlRequests, w \in watchlists, d \in BOOLEAN : WlUpdateLoad(rq, w, d)
    \/ \E rq \in WlRequests : WlSaveDefault(rq)
    \/ \E rq \in WlRequests : WlSaveClean(rq)
    \/ \E rq \in WlRequests : WlSaveWrite(rq)
    \/ \E tier \in {"STANDARD", "PREMIUM"}, m \in MaxWatchlistInputs :
          AdminProfileChange(1, tier, m)

SpecWatchlist == InitWatchlist /\ [][NextWatchlist]_vars

\* C24: in every state each user holds at most profile.max_watchlists
\* watchlists.
C24_WithinTierLimit ==
    \A u \in WlUsers : Cardinality(WatchlistsOf(u)) <= ProfileOf(u).max_watchlists

\* C25: in every state each user has at most one default watchlist, and the
\* watchlist stored for a user who had none is the default.
C25_OneDefault ==
    /\ [](\A u \in WlUsers :
            Cardinality({w \in WatchlistsOf(u) : w.is_default}) <= 1)
    /\ [][\A u \in WlUsers :
            (WatchlistsOf(u) = {} /\ watchlists' # watchlists) =>
                \A w \in watchlists' : w.user = u => w.is_default]_vars

activate(a) ==
    /\ alerts' = [alerts EXCEPT ![a].is_active = TRUE]
    /\ UNCHANGED <<now, prices, cache, evalRun, tasks, notifications, ingestRun, restVars>>

\* PriceAlertViewSet.deactivate: save(update_fields=['is_active']).
deactivate(a) ==
    /\ alerts' = [alerts EXCEPT ![a].is_active = FALSE]
    /\ UNCHANGED <<now, prices, cache, evalRun, tasks, notifications, ingestRun, restVars>>

InProgress(r) == evalRun[r].pc \notin {"idle", "done", "failed"}

\* Runs that do not overlap: a run starts when no other is in progress.
EvalStartNext(r) ==
    /\ \A q \in Runs : ~InProgress(q)
    /\ EvalStart(r)

\* Both stocks have a price above the threshold of the alert that watches
\* them; alert 1 is one_time or not, alert 2 is not.
InitEvalApi ==
    /\ now = StartTime
    /\ prices = {NewPrice("AAPL", StartTime, 3, 0, "ALPHA_VANTAGE"),
                 NewPrice("MSFT", StartTime, 3, 0, "ALPHA_VANTAGE")}
    /\ cache = [s \in Stocks |-> NoPrice]
    /\ \E ot \in BOOLEAN :
          alerts = [a \in AlertIds |->
                       IF a = 1 THEN NewAlert("AAPL", "PRICE_ABOVE", 2, ot)
                       ELSE NewAlert("MSFT", "PRICE_ABOVE", 2, FALSE)]
    /\ evalRun = [r \in Runs |-> IdleRun]
    /\ tasks = <<>>
    /\ notifications = <<>>
    /\ ingestRun = <<>>
    /\ InitRest

NextEvalApi ==
    \/ Tick
    \/ \E r \in Runs : EvalStartNext(r)
    \/ \E r \in Runs : EvalLookup(r)
    \/ \E r \in Runs : EvalCheck(r)
    \/ \E r \in Runs : EvalTrigger(r)
    \/ \E r \in Runs : EvalEnqueue(r)
    \/ \E r \in Runs : EvalSave(r)
    \/ \E r \in Runs : EvalRaise(r)
    \/ \E a \in AlertIds : activate(a)
    \/ \E a \in AlertIds : deactivate(a)

SpecEvalApi == InitEvalApi /\ [][NextEvalApi]_vars

\* The evaluator followed by the dispatcher: AAPL has a price above the
\* threshold of alert 1, MSFT has none.
InitPipeline ==
    /\ now = StartTime
    /\ prices = {NewPrice("AAPL", StartTime, 3, 0, "ALPHA_VANTAGE")}
    /\ cache = [s \in Stocks |-> NoPrice]
    /\ \E ot \in BOOLEAN :
          alerts = [a \in AlertIds |->
                       IF a = 1 THEN NewAlert("AAPL", "PRICE_ABOVE", 2, ot)
                       ELSE NewAlert("MSFT", "PRICE_ABOVE", 2, FALSE)]
    /\ evalRun = [r \in Runs |-> IdleRun]
    /\ tasks = <<>>
    /\ notifications = <<>>
    /\ ingestRun = <<>>
    /\ InitRest

NextPipeline ==
    \/ \E r \in Runs : EvalStartNext(r)
    \/ \E r \in Runs : EvalLookup(r)
    \/ \E r \in Runs : EvalCheck(r)
    \/ \E r \in Runs : EvalTrigger(r)
    \/ \E r \in Runs : EvalEnqueue(r)
    \/ \E r \in Runs : EvalSave(r)
    \/ \E r \in Runs : EvalRaise(r)
    \/ \E i \in DOMAIN tasks : NotifyCreate(i)
    \/ \E i \in DOMAIN tasks : NotifySendOk(i)
    \/ \E i \in DOMAIN tasks : NotifySendFail(i)
    \/ \E i \in DOMAIN tasks : NotifyLookupFail(i)

SpecPipeline == InitPipeline /\ [][NextPipeline]_vars

Selected(r) == {evalRun[r].sel[k] : k \in 1..Len(evalRun[r].sel)}

C28_TriggeredIsNotified ==
    ((\A r \in Runs : ~InProgress(r))
        /\ (\A i \in DOMAIN tasks : tasks[i].pc \in {"succeeded", "failed"})) =>
        \A a \in AlertIds :
            alerts[a].triggered_at # NULL =>
                \E n \in DOMAIN notifications : notifications[n].alert = a

\* C29: no step of an evaluator run turns is_active of an alert from false
\* to true.
C29_DeactivateNotUndone ==
    [][\A r \in Runs :
          (InProgress(r) /\ evalRun'[r] # evalRun[r]) =>
              \A a \in AlertIds : ~alerts[a].is_active => ~alerts'[a].is_active]_vars

====
